---- MODULE Spec2Model ----
(***************************************************************************)
(* State-machine model of inc_sat_solver (src/sat/sat_solver/              *)
(* inc_sat_solver.cpp): the incremental front-end that keeps a scoped      *)
(* stack of formulas and standing assumptions, internalizes them through   *)
(* a preprocessing pipeline into a SAT engine, and maps the engine's       *)
(* answers (core, model, mutexes) back to user-level terms.                *)
(*                                                                         *)
(* The SAT engine (sat::solver), the tactic pipeline and goal2sat are not  *)
(* part of the modelled file; their answers are nondeterministic choices   *)
(* constrained by the interface contract (section 6 of the design).        *)
(***************************************************************************)
EXTENDS Integers, Sequences, FiniteSets, TLC

(***************************************************************************)
(* Bounds of the model.                                                    *)
(***************************************************************************)
NumAtoms == 2
MaxFmls == 2
MaxScopes == 2
CoreMaxFmls == 1
CoreMaxScopes == 1
MaxCore == 2
NumModels == 2
MaxWidth == 2
MaxFresh == 1

(***************************************************************************)
(* Terms.  A term of the ast_manager is encoded as an integer:             *)
(*   an atom (uninterpreted boolean constant)  a          in 1..NumAtoms   *)
(*   the k-th constant of m.mk_fresh_const     NumAtoms + k                *)
(*   m.mk_not(t)                               t + 10                      *)
(*   m.mk_implies(a, t)                        100 * a + t                 *)
(*   the bit-vector constant of width w        10000 + w                   *)
(*   bit i of that constant (a boolean atom)   20000 + 10 * w + i          *)
(*   a formula constraining every bit of it    30000 + w                   *)
(*   a formula constraining its bit 0 only     30100 + w                   *)
(*   bvutil.mk_numeral(r, n)                   40000 + 100 * n + r         *)
(*   m.mk_eq(v, num), v a bit-vector constant  100000 * (v - 10000) + num  *)
(* The encoding is injective, so distinct terms stay distinct.             *)
(***************************************************************************)
Atoms == 1..NumAtoms

Widths == 1..MaxWidth

bv_const(w) == 10000 + w

BvConsts == {bv_const(w) : w \in Widths}

\* bvutil.is_bv(v), for the constants of the model.
is_bv(e) == e \in BvConsts

get_bv_size(v) == v - 10000

\* Bit i of the constant of width w, as the bit-blaster names it.
bit(w, i) == 20000 + 10 * w + i

Bits(w) == {bit(w, i) : i \in 0..(w - 1)}

BitAtoms == UNION {Bits(w) : w \in Widths}

\* m.mk_fresh_const("s", bool) after k earlier ones.
mk_fresh_const(k) == NumAtoms + k + 1

FreshAtoms == {mk_fresh_const(k) : k \in 0..(MaxFresh - 1)}

\* The boolean atoms: what m_map can hold.
MapAtoms == Atoms \cup FreshAtoms \cup BitAtoms

\* m.is_bool(v), for the constants of the model.
is_bool(e) == e \in MapAtoms

bv_fml(w) == 30000 + w

is_bv_fml(e) == e > 30000 /\ e <= 30000 + MaxWidth

bv_fml0(w) == 30100 + w

is_bv_fml0(e) == e > 30100 /\ e <= 30100 + MaxWidth

mk_numeral(r, n) == 40000 + 100 * n + r

mk_eq(v, num) == 100000 * (v - 10000) + num

mk_not(t) == t + 10

is_not(e) == e > 10 /\ e < 100

not_arg(e) == e - 10

mk_implies(a, t) == 100 * a + t

is_implies(e) == e >= 100 /\ e < 1000

is_uninterp_const(e) == e \in MapAtoms \cup BvConsts

\* ast_translation: the image of a term in the destination manager.
tr(t) == t + 1000

\* The atoms of a literal-shaped term or of a guarded literal.
RECURSIVE AtomsOf(_)
AtomsOf(t) ==
    IF is_implies(t) THEN {t \div 100} \cup AtomsOf(t % 100)
    ELSE IF is_not(t) THEN AtomsOf(not_arg(t))
    ELSE IF is_bool(t) THEN {t}
    ELSE IF is_bv_fml(t) THEN Bits(t - 30000)
    ELSE IF is_bv_fml0(t) THEN {bit(t - 30100, 0)}
    ELSE {}

\* The widths of the bit-vector constants a term mentions.
BvOf(t) ==
    IF is_bv_fml(t) THEN {t - 30000}
    ELSE IF is_bv_fml0(t) THEN {t - 30100}
    ELSE {}

AtomsOfAll(T) == UNION {AtomsOf(t) : t \in T}

Range(s) == {s[i] : i \in 1..Len(s)}

(***************************************************************************)
(* Literals of the engine: sat::literal(v, sign) has index 2*v + sign.     *)
(***************************************************************************)
null_bool_var == -1

literal(v, sign) == 2 * v + (IF sign THEN 1 ELSE 0)

lit_var(l) == l \div 2

lit_sign(l) == (l % 2) = 1

l_true == "l_true"
l_false == "l_false"
l_undef == "l_undef"

NoReason == "no reason given"
InterpReason == "interpreted atoms sent to SAT solver"

VARIABLES
    m_fmls,           \* expr_ref_vector: asserted formulas
    m_asmsf,          \* expr_ref_vector: standing assumptions (guards)
    m_fmls_lim,       \* checkpoint stack: formula lengths
    m_asms_lim,       \* checkpoint stack: assumption lengths
    m_fmls_head_lim,  \* checkpoint stack: frontier values
    m_fmls_head,      \* frontier: formulas below it are internalized
    m_core,           \* cached unsat core (user-level terms)
    m_map,            \* atom2bool_var: atom -> bool var (null_bool_var if none)
    m_map_lim,        \* scopes of m_map: the atoms mapped at each push
    m_model,          \* cached model (0 = null)
    m_bb_rewriter,    \* bit-blast rewriter: [alive, scopes, c2b]
    m_preprocess,     \* pipeline tactic exists
    m_num_scopes,     \* scope depth
    m_asms,           \* assumption literals of the last internalization
    m_unknown,        \* reason_unknown string
    m_weights,        \* svector<double>: weights of the last weighted call
    m_exps,           \* vector<rational>: cached powers of two
    s_scopes,         \* engine: user scope level
    s_model,          \* engine: last model (0 = none)
    s_model_is_current, \* engine: model_is_current()
    s_clauses,        \* engine: the translated formulas, each with its level
    call,             \* the last operation and what it returned
    pre_push,         \* history: per open scope, the values just before its push
    fresh_idx         \* ast_manager: how many fresh constants were made

vars == <<m_fmls, m_asmsf, m_fmls_lim, m_asms_lim, m_fmls_head_lim, m_fmls_head,
          m_core, m_map, m_map_lim, m_model, m_bb_rewriter, m_preprocess,
          m_num_scopes, m_asms, m_unknown, m_weights, m_exps, s_scopes,
          s_model, s_model_is_current, s_clauses, call, pre_push, fresh_idx>>

solver_vars == <<m_fmls, m_asmsf, m_fmls_lim, m_asms_lim, m_fmls_head_lim,
                 m_fmls_head, m_core, m_map, m_map_lim, m_model, m_bb_rewriter,
                 m_preprocess, m_num_scopes, m_asms, m_unknown, m_weights,
                 m_exps>>

engine_vars == <<s_scopes, s_model, s_model_is_current, s_clauses>>

(***************************************************************************)
(* The bit-blast rewriter and the pipeline.                                *)
(***************************************************************************)
\* c2b is const2bits: the widths whose constant has been blasted, each with
\* the rewriter scope in which it was.
NullBB == [alive |-> FALSE, scopes |-> 0, c2b |-> {}]

\* init_preprocess: allocate the rewriter if absent, rebuild the tactic, and
\* push the rewriter up to the solver's scope depth.
init_preprocess_no_align(bb) ==
    IF ~bb.alive THEN [alive |-> TRUE, scopes |-> 0, c2b |-> {}] ELSE bb

init_preprocess_no_alloc(bb) ==
    IF bb.alive
    THEN [bb EXCEPT !.scopes = IF @ < m_num_scopes THEN m_num_scopes ELSE @]
    ELSE bb

init_preprocess(bb) ==
    LET b1 == IF ~bb.alive THEN [alive |-> TRUE, scopes |-> 0, c2b |-> {}] ELSE bb
    IN  [b1 EXCEPT !.scopes = IF @ < m_num_scopes THEN m_num_scopes ELSE @]

\* bit_blaster_rewriter::push / pop, guarded by "if (m_bb_rewriter)".
bb_push(bb) == IF bb.alive THEN [bb EXCEPT !.scopes = @ + 1] ELSE bb

bb_pop(bb, n) ==
    IF bb.alive
    THEN [bb EXCEPT !.scopes = @ - n,
                    !.c2b = {e \in @ : e[2] <= bb.scopes - n}]
    ELSE bb

\* const2bits().find(decl of v)
const2bits_find(bb, v) == \E e \in bb.c2b : e[1] = get_bv_size(v)

\* The bit-blaster tactic on a goal: every bit-vector constant it meets for
\* the first time enters const2bits in the rewriter's current scope.
bb_blast(bb, goal) ==
    LET ws == {w \in UNION {BvOf(t) : t \in goal} : ~\E e \in bb.c2b : e[1] = w}
    IN  [bb EXCEPT !.c2b = @ \cup {<<w, bb.scopes>> : w \in ws}]

(***************************************************************************)
(* atom2bool_var.                                                          *)
(***************************************************************************)
EmptyMap == [a \in MapAtoms |-> null_bool_var]

MappedAtoms(map) == {a \in MapAtoms : map[a] # null_bool_var}

to_bool_var(map, e) == IF e \in MapAtoms THEN map[e] ELSE null_bool_var

\* The engine's mk_var: the first variable index not in use.
FreshVar(map) ==
    CHOOSE v \in 0..Cardinality(MapAtoms) :
        /\ \A a \in MapAtoms : map[a] # v
        /\ \A w \in 0..(v - 1) : \E a \in MapAtoms : map[a] = w

\* goal2sat gives a variable to every atom of the residual goal that has none.
RECURSIVE AddAtoms(_, _)
AddAtoms(map, A) ==
    IF A = {} THEN map
    ELSE LET a == CHOOSE x \in A : \A y \in A : x <= y
         IN  AddAtoms(IF map[a] = null_bool_var
                      THEN [map EXCEPT ![a] = FreshVar(map)]
                      ELSE map,
                      A \ {a})

\* atom2bool_var::pop(n): forget the atoms mapped since the n-th last push.
map_pop(map, lim, n) ==
    IF n = 0 THEN map
    ELSE LET keep == lim[Len(lim) - n + 1]
         IN  [a \in MapAtoms |-> IF a \in keep THEN map[a] ELSE null_bool_var]

\* The literal goal2sat records for a dependency leaf (insert_dep).
DepLit(map, t) ==
    IF is_not(t) THEN literal(map[not_arg(t)], TRUE) ELSE literal(map[t], FALSE)

(***************************************************************************)
(* Internalization.  ch = [oc, kept] is what the pipeline does with a goal:*)
(* oc is its outcome and kept the goal terms that survive into the residual*)
(* goal (the others are dropped as redundant).  p = [bb, pre, map, unknown,*)
(* reason_set, ...] is the part of the solver state the pipeline touches,  *)
(* with what the call has done to the pipeline so far:                     *)
(*   apps        how many times the pipeline was applied                   *)
(*   exc         the pipeline raised a tactic_exception                    *)
(*   rebuilt     init_preprocess found no rewriter and allocated one       *)
(*   misaligned  the pipeline was applied with the rewriter's scope depth  *)
(*               different from the solver's                               *)
(*   null_deref  a null m_preprocess or m_bb_rewriter was dereferenced     *)
(***************************************************************************)
PipelineOutcomes == {"ok", "exception", "subgoals", "interp"}

PipeState ==
    [bb |-> m_bb_rewriter, pre |-> m_preprocess, map |-> m_map,
     unknown |-> m_unknown, reason_set |-> FALSE,
     apps |-> 0, exc |-> FALSE, rebuilt |-> FALSE, misaligned |-> FALSE,
     null_deref |-> FALSE]

\* init_preprocess on p: the rewriter and the tactic after it.
do_init_preprocess(p) ==
    [p EXCEPT !.bb = init_preprocess(p.bb), !.pre = TRUE,
              !.rebuilt = @ \/ ~p.bb.alive]

\* (*m_preprocess)(g, ...): the tactic and, inside it, the rewriter are used.
apply_preprocess(p) ==
    [p EXCEPT !.apps = @ + 1,
              !.misaligned = @ \/ (p.bb.alive /\ p.bb.scopes # m_num_scopes),
              !.null_deref = @ \/ ~p.pre \/ ~p.bb.alive]

set_reason_unknown(p, msg) == [p EXCEPT !.unknown = msg, !.reason_set = TRUE]

internalize_goal(p, deps, ch) ==
    LET p0 == apply_preprocess(do_init_preprocess(p))
        map1 == AddAtoms(p.map, AtomsOfAll(ch.kept))
        d == IF deps THEN {<<t, DepLit(map1, t)>> : t \in ch.kept} ELSE {}
        p1 == [p0 EXCEPT !.bb = bb_blast(p0.bb, ch.kept)]
        p2 == [p1 EXCEPT !.map = map1]
    IN  CASE ch.oc = "exception" ->
               [res |-> l_undef, dep2asm |-> {},
                p |-> [p0 EXCEPT !.bb = NullBB, !.pre = FALSE, !.exc = TRUE]]
          [] ch.oc = "subgoals" ->
               [res |-> l_undef, dep2asm |-> {}, p |-> p1]
          [] ch.oc = "interp" ->
               [res |-> l_undef, dep2asm |-> d,
                p |-> set_reason_unknown(p2, InterpReason)]
          [] OTHER ->
               [res |-> l_true, dep2asm |-> d, p |-> p2]

\* The positions (counted from 1) of the formulas the loop of
\* internalize_formulas puts into the goal: the untranslated suffix.
goal_indices_all(fmls, head) == 1..Len(fmls)

goal_indices(fmls, head) == (head + 1)..Len(fmls)

FmlGoal(fmls, head) == {fmls[i] : i \in goal_indices(fmls, head)}

\* m_fmls_head after internalize_goal returned res.
frontier_after_reset(res, head, len) == IF res # l_undef THEN len ELSE 0

frontier_after_advance(res, head, len) == len

frontier_after(res, head, len) == IF res # l_undef THEN len ELSE head

\* goal: the indices of the formulas run through the pipeline; g2s: those
\* handed on to goal2sat.
internalize_formulas(p, fmls, head, ch) ==
    IF head = Len(fmls)
    THEN [res |-> l_true, p |-> p, head |-> head, goal |-> {}, g2s |-> {}]
    ELSE LET g == internalize_goal(p, FALSE, ch)
         IN  [res |-> g.res, p |-> g.p,
              head |-> frontier_after(g.res, head, Len(fmls)),
              goal |-> goal_indices(fmls, head),
              g2s |-> IF ch.oc \in {"ok", "interp"}
                      THEN goal_indices(fmls, head) ELSE {}]

\* goal2sat on the formulas at the positions ix of fmls: the engine adds their
\* clauses at its current user scope level lvl.
goal2sat_fmls(clauses, fmls, ix, lvl) ==
    clauses \cup {[ix |-> i, fml |-> fmls[i], lvl |-> lvl] : i \in ix}

\* sat::solver::user_pop down to level lvl: what was added above it is gone.
user_pop(clauses, lvl) == {c \in clauses : c.lvl <= lvl}

\* dep2asm.find
dep_find(dep2asm, t) == \E q \in dep2asm : q[1] = t

dep_lit(dep2asm, t) == (CHOOSE q \in dep2asm : q[1] = t)[2]

extract_assumptions(asms, standing, dep2asm) ==
    LET InMap(t) == dep_find(dep2asm, t)
        kept1 == SelectSeq(asms, InMap)
        kept2 == SelectSeq(standing, InMap)
        ts == kept1 \o kept2
    IN  [i \in 1..Len(ts) |-> dep_lit(dep2asm, ts[i])]

\* The weights part of extract_assumptions' first loop, from positions i
\* (next call-supplied term) and j (next kept slot), both counted from 1.
\* Reading m_weights[i] past the end of the array is undefined: it yields
\* some value g, and oob records that it happened.
RECURSIVE compact_loop(_, _, _, _, _, _)
compact_loop(ws, asms, dep2asm, i, j, g) ==
    IF i > Len(asms) THEN [ws |-> ws, oob |-> FALSE]
    ELSE IF ~dep_find(dep2asm, asms[i])
    THEN compact_loop(ws, asms, dep2asm, i + 1, j, g)
    ELSE IF i = j \/ ws = <<>>
    THEN compact_loop(ws, asms, dep2asm, i + 1, j + 1, g)
    ELSE IF i > Len(ws)
    THEN [ws |-> IF j <= Len(ws)
                 THEN compact_loop([ws EXCEPT ![j] = g], asms, dep2asm,
                                   i + 1, j + 1, g).ws
                 ELSE compact_loop(ws, asms, dep2asm, i + 1, j + 1, g).ws,
          oob |-> TRUE]
    ELSE LET c == compact_loop([ws EXCEPT ![j] = ws[i]], asms, dep2asm,
                               i + 1, j + 1, g)
         IN  c

compact_weights(ws, asms, dep2asm, g) ==
    compact_loop(ws, asms, dep2asm, 1, 1, g)

\* The values a read past the end of m_weights may yield.
GarbageWeights == {0, 9}

\* The goal of internalize_assumptions: call-supplied terms, then standing.
AsmGoal(asms, standing) == Range(asms) \cup Range(standing)

\* ws is m_weights as the call finds it, junk what a read past its end yields.
internalize_assumptions(p, asms, standing, old_asms, ws, junk, ch) ==
    IF Len(asms) = 0 /\ Len(standing) = 0
    THEN [res |-> l_true, p |-> p, dep2asm |-> {}, m_asms |-> <<>>,
          m_weights |-> ws, oob |-> FALSE, ran |-> FALSE]
    ELSE LET g == internalize_goal(p, TRUE, ch)
             w == compact_weights(ws, asms, g.dep2asm, junk)
         IN  [res |-> g.res, p |-> g.p, dep2asm |-> g.dep2asm,
              m_asms |-> IF g.res = l_true
                         THEN extract_assumptions(asms, standing, g.dep2asm)
                         ELSE old_asms,
              m_weights |-> IF g.res = l_true THEN w.ws ELSE ws,
              oob |-> g.res = l_true /\ w.oob,
              ran |-> TRUE]

\* asm2dep.find after extract_asm2dep: the term of a literal index, 0 if none.
asm2dep_find(dep2asm, l) ==
    IF \E q \in dep2asm : q[2] = l
    THEN (CHOOSE q \in dep2asm : q[2] = l)[1]
    ELSE 0

extract_core(dep2asm, core) ==
    [i \in 1..Len(core) |-> asm2dep_find(dep2asm, core[i])]

(***************************************************************************)
(* What the last operation was and what it returned.                       *)
(***************************************************************************)
NoClone ==
    [made |-> FALSE, m_fmls |-> <<>>, m_asmsf |-> <<>>, m_fmls_head |-> 0,
     m_num_scopes |-> 0]

NoPre == [fmls |-> 0, asms |-> 0, head |-> 0, snap |-> 0]

\* What a call did while internalizing:
\*   head0     the frontier when the call began
\*   fml_res   what internalize_formulas returned ("none": not called)
\*   fml_goal  the indices of the formulas run through the pipeline
\*   g2s       the indices of the formulas handed to goal2sat
\*   asm_res   what internalize_assumptions returned ("none": not called)
\*   dep_size  the size of the dependency map it built
\*   kept_ix   the positions of the call-supplied terms found in that map
\*   ws_in     the weights the caller supplied
\*   oob       m_weights was read past its end
\*   applied   the pipeline was applied at least once
\* and exc, rebuilt, misaligned, null_deref as in the pipeline state.
NoInt ==
    [head0 |-> 0, fml_res |-> "none", fml_goal |-> {}, g2s |-> {},
     asm_res |-> "none", dep_size |-> 0, kept_ix |-> <<>>, ws_in |-> <<>>,
     oob |-> FALSE, applied |-> FALSE, exc |-> FALSE, rebuilt |-> FALSE,
     misaligned |-> FALSE, null_deref |-> FALSE]

NoCall ==
    [op |-> "init", r |-> "none", req |-> 0, n |-> 0, exp |-> NoPre,
     reason_set |-> FALSE, engine_ran |-> FALSE, int |-> NoInt,
     asms_in |-> <<>>, core |-> <<>>,
     vars_in |-> <<>>, lconseq |-> <<>>, conseq |-> <<>>,
     mdl |-> 0, made_model |-> FALSE,
     ls |-> <<>>, ls_mutexes |-> <<>>, mutexes |-> <<>>,
     clone |-> NoClone]

Init ==
    /\ m_fmls = <<>>
    /\ m_asmsf = <<>>
    /\ m_fmls_lim = <<>>
    /\ m_asms_lim = <<>>
    /\ m_fmls_head_lim = <<>>
    /\ m_fmls_head = 0
    /\ m_core = <<>>
    /\ m_map = EmptyMap
    /\ m_map_lim = <<>>
    /\ m_model = 0
    /\ m_bb_rewriter = [alive |-> TRUE, scopes |-> 0, c2b |-> {}]
    /\ m_preprocess = TRUE
    /\ m_num_scopes = 0
    /\ m_asms = <<>>
    /\ m_unknown = NoReason
    /\ m_weights = <<>>
    /\ m_exps = <<>>
    /\ fresh_idx = 0
    /\ s_scopes = 0
    /\ s_model = 0
    /\ s_model_is_current = FALSE
    /\ s_clauses = {}
    /\ call = NoCall
    /\ pre_push = <<>>

(***************************************************************************)
(* assert_expr(t) and assert_expr(t, a).  a = 0 stands for no guard.       *)
(***************************************************************************)
assert_expr(t, a) ==
    /\ IF a # 0
       THEN /\ m_asmsf' = Append(m_asmsf, a)
            /\ m_fmls' = Append(m_fmls, mk_implies(a, t))
       ELSE /\ m_asmsf' = m_asmsf
            /\ m_fmls' = Append(m_fmls, t)
    /\ call' = [NoCall EXCEPT !.op = "assert_expr"]
    /\ UNCHANGED <<m_fmls_lim, m_asms_lim, m_fmls_head_lim, m_fmls_head, m_core,
                   m_map, m_map_lim, m_model, m_bb_rewriter, m_preprocess,
                   m_num_scopes, m_asms, m_unknown, m_weights, m_exps,
                   engine_vars, pre_push, fresh_idx>>

(***************************************************************************)
(* push().                                                                 *)
(***************************************************************************)
\* Faulty variant of push_checkpoint: the assumption count is not recorded.
push_checkpoint_no_asms(head) ==
    [fmls_lim |-> Append(m_fmls_lim, Len(m_fmls)),
     asms_lim |-> m_asms_lim,
     head_lim |-> Append(m_fmls_head_lim, head)]

\* The three checkpoint stacks after push's snapshot; head is the frontier
\* after push's internalize_formulas.
push_checkpoint(head) ==
    [fmls_lim |-> Append(m_fmls_lim, Len(m_fmls)),
     asms_lim |-> Append(m_asms_lim, Len(m_asmsf)),
     head_lim |-> Append(m_fmls_head_lim, head)]

push(ch) ==
    \E f \in {internalize_formulas(PipeState, m_fmls, m_fmls_head, ch)} :
    \E k \in {push_checkpoint(f.head)} :
        /\ m_fmls_head' = f.head
        /\ m_preprocess' = f.p.pre
        /\ m_unknown' = f.p.unknown
        /\ s_clauses' = goal2sat_fmls(s_clauses, m_fmls, f.g2s, s_scopes)
        /\ s_scopes' = s_scopes + 1
        /\ m_num_scopes' = m_num_scopes + 1
        /\ m_fmls_lim' = k.fmls_lim
        /\ m_asms_lim' = k.asms_lim
        /\ m_fmls_head_lim' = k.head_lim
        /\ m_bb_rewriter' = bb_push(f.p.bb)
        /\ m_map' = f.p.map
        /\ m_map_lim' = Append(m_map_lim, MappedAtoms(f.p.map))
        /\ pre_push' = Append(pre_push,
                              [fmls |-> Len(m_fmls), asms |-> Len(m_asmsf),
                               head |-> m_fmls_head, snap |-> f.head])
        /\ call' = [NoCall EXCEPT
                        !.op = "push", !.r = f.res,
                        !.reason_set = f.p.reason_set,
                        !.int = [NoInt EXCEPT
                                    !.head0 = m_fmls_head, !.fml_res = f.res,
                                    !.fml_goal = f.goal, !.g2s = f.g2s,
                                    !.applied = f.p.apps > 0,
                                    !.exc = f.p.exc,
                                    !.rebuilt = f.p.rebuilt,
                                    !.misaligned = f.p.misaligned,
                                    !.null_deref = f.p.null_deref]]
        /\ UNCHANGED <<m_weights, m_exps, fresh_idx>>
        /\ UNCHANGED <<m_fmls, m_asmsf, m_core, m_model, m_asms, s_model,
                       s_model_is_current>>

(***************************************************************************)
(* pop(n).                                                                 *)
(***************************************************************************)
\* Faulty variant of pop_clamp: a request deeper than the stack pops nothing.
pop_clamp_ignore(n) == IF n > m_num_scopes THEN 0 ELSE n

pop_clamp(n) == IF n > m_num_scopes THEN m_num_scopes ELSE n

resize(s, k) ==
    IF k <= Len(s) THEN SubSeq(s, 1, k)
    ELSE s \o [i \in 1..(k - Len(s)) |-> 0]

pop_back(s) == SubSeq(s, 1, Len(s) - 1)

back(s) == s[Len(s)]

\* Faulty variant of pop_loop: the frontier is not restored.
RECURSIVE pop_loop_keep_head(_, _)
pop_loop_keep_head(st, n) ==
    IF n = 0 THEN st
    ELSE pop_loop_keep_head([head |-> st.head,
                             fmls |-> resize(st.fmls, back(st.fmls_lim)),
                             fmls_lim |-> pop_back(st.fmls_lim),
                             head_lim |-> pop_back(st.head_lim),
                             asmsf |-> resize(st.asmsf, back(st.asms_lim)),
                             asms_lim |-> pop_back(st.asms_lim)],
                            n - 1)

\* The while loop of pop: one checkpoint restored per popped level.
RECURSIVE pop_loop(_, _)
pop_loop(st, n) ==
    IF n = 0 THEN st
    ELSE pop_loop([head |-> back(st.head_lim),
                   fmls |-> resize(st.fmls, back(st.fmls_lim)),
                   fmls_lim |-> pop_back(st.fmls_lim),
                   head_lim |-> pop_back(st.head_lim),
                   asmsf |-> resize(st.asmsf, back(st.asms_lim)),
                   asms_lim |-> pop_back(st.asms_lim)],
                  n - 1)

\* pop after the clamp: what it asks of the rewriter, the map and the engine,
\* and the solver state it leaves.
pop_effect(n) ==
    LET st == pop_loop([head |-> m_fmls_head, fmls |-> m_fmls,
                        fmls_lim |-> m_fmls_lim, head_lim |-> m_fmls_head_lim,
                        asmsf |-> m_asmsf, asms_lim |-> m_asms_lim], n)
    IN  [n |-> n,
         pop_bb |-> IF m_bb_rewriter.alive THEN n ELSE -1,
         pop_map |-> n,
         pop_solver |-> n,
         m_bb_rewriter |-> bb_pop(m_bb_rewriter, n),
         m_map |-> map_pop(m_map, m_map_lim, n),
         m_map_lim |-> SubSeq(m_map_lim, 1, Len(m_map_lim) - n),
         s_scopes |-> s_scopes - n,
         s_clauses |-> user_pop(s_clauses, s_scopes - n),
         m_num_scopes |-> m_num_scopes - n,
         m_fmls_head |-> st.head,
         m_fmls |-> st.fmls,
         m_fmls_lim |-> st.fmls_lim,
         m_fmls_head_lim |-> st.head_lim,
         m_asmsf |-> st.asmsf,
         m_asms_lim |-> st.asms_lim,
         m_core |-> m_core,
         m_model |-> m_model]

\* Faulty variant of pop_state: the cached model is dropped with the scopes.
pop_state_drop_model(n0) == [pop_effect(pop_clamp(n0)) EXCEPT !.m_model = 0]

pop_state(n0) == pop_effect(pop_clamp(n0))

pop(n0) ==
    \E q \in {pop_state(n0)} :
        /\ m_bb_rewriter' = q.m_bb_rewriter
        /\ m_map' = q.m_map
        /\ m_map_lim' = q.m_map_lim
        /\ s_scopes' = q.s_scopes
        /\ s_clauses' = q.s_clauses
        /\ m_num_scopes' = q.m_num_scopes
        /\ m_fmls_head' = q.m_fmls_head
        /\ m_fmls' = q.m_fmls
        /\ m_fmls_lim' = q.m_fmls_lim
        /\ m_fmls_head_lim' = q.m_fmls_head_lim
        /\ m_asmsf' = q.m_asmsf
        /\ m_asms_lim' = q.m_asms_lim
        /\ m_core' = q.m_core
        /\ m_model' = q.m_model
        /\ pre_push' = SubSeq(pre_push, 1, Len(pre_push) - q.n)
        /\ call' = [NoCall EXCEPT !.op = "pop", !.req = n0, !.n = q.n,
                                  !.int = [NoInt EXCEPT !.head0 = m_fmls_head],
                                  !.exp = IF q.n >= 1
                                          THEN pre_push[Len(pre_push) - q.n + 1]
                                          ELSE NoPre]
        /\ UNCHANGED <<m_weights, m_exps, fresh_idx>>
        /\ UNCHANGED <<m_preprocess, m_asms, m_unknown, s_model,
                       s_model_is_current>>

(***************************************************************************)
(* What the collaborators may answer.                                      *)
(***************************************************************************)
OkChoice == [oc |-> "ok", kept |-> {}]

\* The pipeline on the untranslated formulas: every formula reaches goal2sat.
FmlChoices(fmls, head, O) ==
    IF head = Len(fmls) THEN {OkChoice}
    ELSE [oc : O, kept : {FmlGoal(fmls, head)}]

\* The pipeline on an assumption goal: it may drop terms as redundant.
AsmChoices(asms, standing, O) ==
    IF Len(asms) = 0 /\ Len(standing) = 0 THEN {OkChoice}
    ELSE [oc : O, kept : SUBSET AsmGoal(asms, standing)]

IsInjective(f) == \A i, j \in DOMAIN f : f[i] = f[j] => i = j

\* The cores the engine may report: literals among the assumptions it was given.
CoreChoices(lits) ==
    {c \in UNION {[1..k -> Range(lits)] : k \in 0..MaxCore} : IsInjective(c)}

EngineCheck(lits, M) ==
    {[r |-> l_true, model |-> md, core |-> <<>>] : md \in M}
    \cup {[r |-> l_false, model |-> 0, core |-> c] : c \in CoreChoices(lits)}
    \cup {[r |-> l_undef, model |-> 0, core |-> <<>>]}

NoAnswer == [r |-> "none", model |-> 0, core |-> <<>>]

(***************************************************************************)
(* check_sat(sz, assumptions).                                             *)
(***************************************************************************)
\* check_sat up to the engine's check: the formulas (result f) and then the
\* assumptions are internalized; a failure returns at once.
check_sat_front(f, asms, ws, junk, ch2) ==
    LET a == internalize_assumptions(f.p, asms, m_asmsf, m_asms, ws, junk, ch2)
    IN  IF f.res # l_true
        THEN [res |-> f.res, p |-> f.p, head |-> f.head, m_asms |-> m_asms,
              dep2asm |-> {}, stage |-> "formulas", m_weights |-> ws,
              oob |-> FALSE, asm_res |-> "none"]
        ELSE [res |-> a.res, p |-> a.p, head |-> f.head, m_asms |-> a.m_asms,
              dep2asm |-> a.dep2asm,
              stage |-> IF a.res # l_true THEN "assumptions" ELSE "engine",
              m_weights |-> a.m_weights, oob |-> a.oob, asm_res |-> a.res]

\* The positions of the call-supplied terms that dep2asm holds, in order.
kept_positions(asms, dep2asm) ==
    SelectSeq([i \in 1..Len(asms) |-> i],
              LAMBDA i : dep_find(dep2asm, asms[i]))

\* The report of a call that ran internalize_formulas (result f) and then,
\* if that succeeded, internalize_assumptions (front result c).
int_report(f, c, asms, ws) ==
    [head0 |-> m_fmls_head, fml_res |-> f.res, fml_goal |-> f.goal,
     g2s |-> f.g2s, asm_res |-> c.asm_res,
     dep_size |-> Cardinality(c.dep2asm),
     kept_ix |-> kept_positions(asms, c.dep2asm), ws_in |-> ws,
     oob |-> c.oob, applied |-> c.p.apps > 0, exc |-> c.p.exc,
     rebuilt |-> c.p.rebuilt, misaligned |-> c.p.misaligned,
     null_deref |-> c.p.null_deref]

\* The tail of check_sat: what m_core becomes for the engine's answer e.
check_sat_core(asms_lits, dep2asm, e) ==
    IF e.r = l_false /\ asms_lits # <<>>
    THEN extract_core(dep2asm, e.core)
    ELSE m_core

\* check_sat(sz, assumptions, weights, max_weight).  ws = <<>> stands for a
\* null weights pointer.  O: the outcomes the pipeline may have; M: the
\* models the engine may find.
check_sat_weighted(asms, ws, O, M) ==
    \E ch1 \in FmlChoices(m_fmls, m_fmls_head, O) :
    \E f \in {internalize_formulas(PipeState, m_fmls, m_fmls_head, ch1)} :
    \E ch2 \in IF f.res = l_true THEN AsmChoices(asms, m_asmsf, O) ELSE {OkChoice} :
    \E c \in {check_sat_front(f, asms, ws, 0, ch2)} :
    \E e \in IF c.stage = "engine" THEN EngineCheck(c.m_asms, M) ELSE {NoAnswer} :
        /\ m_weights' = c.m_weights
        /\ m_model' = 0
        /\ s_clauses' = goal2sat_fmls(s_clauses, m_fmls, f.g2s, s_scopes)
        /\ m_fmls_head' = c.head
        /\ m_bb_rewriter' = c.p.bb
        /\ m_preprocess' = c.p.pre
        /\ m_map' = c.p.map
        /\ m_unknown' = c.p.unknown
        /\ m_asms' = c.m_asms
        /\ IF c.stage = "engine"
           THEN /\ s_model_is_current' = (e.r = l_true)
                /\ s_model' = IF e.r = l_true THEN e.model ELSE s_model
                /\ m_core' = check_sat_core(c.m_asms, c.dep2asm, e)
           ELSE /\ UNCHANGED <<s_model_is_current, s_model, m_core>>
        /\ call' = [NoCall EXCEPT !.op = "check_sat",
                                  !.r = IF c.stage = "engine" THEN e.r ELSE c.res,
                                  !.reason_set = c.p.reason_set,
                                  !.engine_ran = (c.stage = "engine"),
                                  !.int = int_report(f, c, asms, ws),
                                  !.asms_in = asms,
                                  !.core = e.core]
        /\ UNCHANGED <<m_fmls, m_asmsf, m_fmls_lim, m_asms_lim, m_fmls_head_lim,
                       m_map_lim, m_num_scopes, m_exps, s_scopes, pre_push,
                       fresh_idx>>

\* check_sat(num_assumptions, assumptions): no weights.
check_sat(asms, O, M) == check_sat_weighted(asms, <<>>, O, M)

(***************************************************************************)
(* display_weighted(out, sz, assumptions, weights).  ws = <<>> stands for  *)
(* a null weights pointer.  VERIFY aborts a debug build when its condition *)
(* fails and only evaluates it in a release build: "abort" ends the        *)
(* program, "ignore" goes on.                                              *)
(***************************************************************************)
VerifyOutcomes(ok) == IF ok THEN {"pass"} ELSE {"abort", "ignore"}

\* The guard constants and the formulas of the loop at lines 122-127.
display_guards(sz) == [i \in 1..sz |-> mk_fresh_const(fresh_idx + i - 1)]

\* Faulty variant of display_fmls: the dump stores nothing.
display_fmls_none(asms) == <<>>

display_fmls(asms) ==
    [i \in 1..Len(asms) |-> mk_implies(display_guards(Len(asms))[i], asms[i])]

display_weighted(asms, ws, O) ==
    \E p0 \in {do_init_preprocess(PipeState)} :
    \E fmls1 \in {m_fmls \o display_fmls(asms)} :
    \E gs \in {display_guards(Len(asms))} :
    \E ch1 \in FmlChoices(fmls1, m_fmls_head, O) :
    \E f \in {internalize_formulas(p0, fmls1, m_fmls_head, ch1)} :
    \E v1 \in VerifyOutcomes(f.res = l_true) :
    \E ch2 \in IF v1 # "abort" THEN AsmChoices(gs, m_asmsf, O) ELSE {OkChoice} :
    \E a \in {internalize_assumptions(f.p, gs, m_asmsf, m_asms, ws, 0, ch2)} :
    \E v2 \in IF v1 = "abort" THEN {"abort"} ELSE VerifyOutcomes(a.res = l_true) :
    \E c \in {IF v1 = "abort"
              THEN [p |-> f.p, m_asms |-> m_asms, dep2asm |-> {},
                    m_weights |-> ws, oob |-> FALSE, asm_res |-> "none"]
              ELSE [p |-> a.p, m_asms |-> a.m_asms, dep2asm |-> a.dep2asm,
                    m_weights |-> a.m_weights,
                    oob |-> v2 # "abort" /\ Len(a.m_asms) > Len(a.m_weights),
                    asm_res |-> a.res]} :
        /\ m_weights' = c.m_weights
        /\ s_clauses' = goal2sat_fmls(s_clauses, fmls1, f.g2s, s_scopes)
        /\ m_fmls' = fmls1
        /\ fresh_idx' = fresh_idx + Len(asms)
        /\ m_fmls_head' = f.head
        /\ m_bb_rewriter' = c.p.bb
        /\ m_preprocess' = c.p.pre
        /\ m_map' = c.p.map
        /\ m_unknown' = c.p.unknown
        /\ m_asms' = c.m_asms
        /\ call' = [NoCall EXCEPT
                        !.op = "display_weighted",
                        !.r = IF v2 = "abort" THEN "abort" ELSE "done",
                        !.reason_set = c.p.reason_set,
                        !.int = int_report(f, c, gs, ws),
                        !.asms_in = asms]
        /\ UNCHANGED <<m_asmsf, m_fmls_lim, m_asms_lim, m_fmls_head_lim, m_core,
                       m_map_lim, m_model, m_num_scopes, m_exps, s_scopes,
                       s_model, s_model_is_current, pre_push>>

\* The program is still running: no VERIFY has aborted it.
Running == call.r # "abort"

(***************************************************************************)
(* get_unsat_core, reason_unknown, get_scope_level: the getters.           *)
(***************************************************************************)
get_unsat_core == m_core

reason_unknown == m_unknown

get_scope_level == m_num_scopes

(***************************************************************************)
(* get_model(mdl) and extract_model.                                       *)
(***************************************************************************)
\* extract_model: null when the engine's model is not current, otherwise the
\* model built from the engine's assignment.
extract_model == IF ~s_model_is_current THEN 0 ELSE s_model

get_model_value == IF m_model = 0 THEN extract_model ELSE m_model

get_model ==
    /\ m_model' = get_model_value
    /\ call' = [NoCall EXCEPT !.op = "get_model", !.mdl = get_model_value,
                              !.made_model = (m_model = 0 /\ s_model_is_current)]
    /\ UNCHANGED <<m_fmls, m_asmsf, m_fmls_lim, m_asms_lim, m_fmls_head_lim,
                   m_fmls_head, m_core, m_map, m_map_lim, m_bb_rewriter,
                   m_preprocess, m_num_scopes, m_asms, m_unknown, m_weights,
                   m_exps, engine_vars, pre_push, fresh_idx>>

(***************************************************************************)
(* translate(dst_m, p).                                                    *)
(***************************************************************************)
\* Faulty variant of translate_result: the scope depth is not checked.
translate_any_depth ==
    [r |-> "ok",
     clone |-> [made |-> TRUE,
                m_fmls |-> [i \in 1..Len(m_fmls) |-> tr(m_fmls[i])],
                m_asmsf |-> [i \in 1..Len(m_asmsf) |-> tr(m_asmsf[i])],
                m_fmls_head |-> 0,
                m_num_scopes |-> 0]]

translate_result ==
    IF m_num_scopes > 0
    THEN [r |-> "exception", clone |-> NoClone]
    ELSE [r |-> "ok",
          clone |-> [made |-> TRUE,
                     m_fmls |-> [i \in 1..Len(m_fmls) |-> tr(m_fmls[i])],
                     m_asmsf |-> [i \in 1..Len(m_asmsf) |-> tr(m_asmsf[i])],
                     m_fmls_head |-> 0,
                     m_num_scopes |-> 0]]

translate ==
    /\ call' = [NoCall EXCEPT !.op = "translate", !.r = translate_result.r,
                              !.clone = translate_result.clone]
    /\ UNCHANGED <<solver_vars, engine_vars, pre_push, fresh_idx>>

(***************************************************************************)
(* find_mutexes(vars, mutexes).  groups is the engine's answer: index      *)
(* sequences into the literals it was given.                               *)
(***************************************************************************)
\* m.is_not(e, e): strip one negation.
strip_not(e) == IF is_not(e) THEN not_arg(e) ELSE e

\* The forward pass: the input positions that have a variable, in order.
mutex_kept(vs) ==
    SelectSeq([i \in 1..Len(vs) |-> i],
              LAMBDA i : to_bool_var(m_map, strip_not(vs[i])) # null_bool_var)

mutex_ls(vs) ==
    LET k == mutex_kept(vs)
    IN  [j \in 1..Len(k) |->
            literal(to_bool_var(m_map, strip_not(vs[k[j]])), is_not(vs[k[j]]))]

\* Faulty variant of lit2var_find: the term with its negation stripped.
lit2var_find_stripped(vs, l) ==
    LET k == mutex_kept(vs)
        ls == mutex_ls(vs)
        hits == {j \in 1..Len(k) : ls[j] = l}
    IN  IF hits = {} THEN 0
        ELSE strip_not(vs[k[CHOOSE j \in hits : \A j2 \in hits : j2 <= j]])

\* lit2var.find: the last input term inserted under a literal index.
lit2var_find(vs, l) ==
    LET k == mutex_kept(vs)
        ls == mutex_ls(vs)
        hits == {j \in 1..Len(k) : ls[j] = l}
    IN  IF hits = {} THEN 0
        ELSE vs[k[CHOOSE j \in hits : \A j2 \in hits : j2 <= j]]

find_mutexes_out(vs, ls_mutexes) ==
    [i \in 1..Len(ls_mutexes) |->
        [j \in 1..Len(ls_mutexes[i]) |-> lit2var_find(vs, ls_mutexes[i][j])]]

find_mutexes(vs, ls_mutexes) ==
    /\ call' = [NoCall EXCEPT !.op = "find_mutexes", !.r = l_true,
                              !.asms_in = vs,
                              !.ls = mutex_ls(vs),
                              !.ls_mutexes = ls_mutexes,
                              !.mutexes = find_mutexes_out(vs, ls_mutexes)]
    /\ UNCHANGED <<solver_vars, engine_vars, pre_push, fresh_idx>>

\* The groups the engine may return: literals among those it was given.
MutexGroups(ls) ==
    LET G == {g \in UNION {[1..k -> Range(ls)] : k \in 1..2} : IsInjective(g)}
    IN  {<<>>} \cup {<<g>> : g \in G} \cup {<<g, h>> : g \in G, h \in G}

(***************************************************************************)
(* get_consequences_core(assumptions, vars, conseq).                       *)
(***************************************************************************)
\* internalize_var for a boolean constant: its variable, if it has one.
\* "internalized" after the loop over the bits: false once a bit has no
\* variable.
bits_internalized_any(bs) == \E j \in 1..Len(bs) : bs[j] # null_bool_var

bits_internalized(bs) == \A j \in 1..Len(bs) : bs[j] # null_bool_var

internalize_var(bb, map, v) ==
    IF is_uninterp_const(v) /\ is_bool(v)
    THEN IF to_bool_var(map, v) # null_bool_var
         THEN [ok |-> TRUE, bvars |-> <<to_bool_var(map, v)>>]
         ELSE [ok |-> FALSE, bvars |-> <<>>]
    ELSE IF is_uninterp_const(v) /\ const2bits_find(bb, v)
    THEN LET sz == get_bv_size(v)
             bs == [j \in 1..sz |-> to_bool_var(map, bit(sz, j - 1))]
         IN  [ok |-> bits_internalized(bs),
              bvars |-> SelectSeq(bs, LAMBDA b : b # null_bool_var)]
    ELSE [ok |-> FALSE, bvars |-> <<>>]

RECURSIVE internalize_vars(_, _, _)
internalize_vars(bb, map, vs) ==
    IF vs = <<>> THEN <<>>
    ELSE internalize_var(bb, map, Head(vs)).bvars
         \o internalize_vars(bb, map, Tail(vs))

\* bool_var2conseq.find: the last consequence whose head is on variable b.
conseq_index(lconseq, b) ==
    LET hits == {i \in 1..Len(lconseq) : lit_var(lconseq[i][1]) = b}
    IN  IF hits = {} THEN 0 ELSE CHOOSE i \in hits : \A j \in hits : j <= i

\* m_exps after "if empty push 1; while size < n push 2 * back".
next_exp_linear(e) == e + 2

next_exp(e) == 2 * e

RECURSIVE grow_exps(_, _)
grow_exps(exps, n) ==
    IF exps = <<>> THEN grow_exps(<<1>>, n)
    ELSE IF Len(exps) < n
    THEN grow_exps(Append(exps, next_exp(exps[Len(exps)])), n)
    ELSE exps

\* r after the loop over value[0..i-1], positions counted from 1.
RECURSIVE value_sum(_, _, _)
value_sum(exps, value, i) ==
    IF i = 0 THEN 0
    ELSE value_sum(exps, value, i - 1)
         + (IF ~lit_sign(value[i]) THEN exps[i] ELSE 0)

\* internalize_value: the value term and m_exps after the call.
internalize_value(exps, value, v) ==
    IF is_uninterp_const(v) /\ is_bool(v)
    THEN [val |-> IF lit_sign(value[1]) THEN mk_not(v) ELSE v, exps |-> exps]
    ELSE LET e1 == grow_exps(exps, Len(value))
         IN  [val |-> mk_eq(v, mk_numeral(value_sum(e1, value, Len(value)),
                                          Len(value))),
              exps |-> e1]

\* A set of literals as the sequence in increasing index order.
RECURSIVE SortedSeq(_)
SortedSeq(S) ==
    IF S = {} THEN <<>>
    ELSE LET x == CHOOSE y \in S : \A z \in S : y <= z
         IN  <<x>> \o SortedSeq(S \ {x})

\* The term extract_fixed_variable builds: m.mk_implies(mk_and(conj), val),
\* kept as its parts; implies says the top symbol is an implication.
mk_conseq(conj, val) == [implies |-> TRUE, conj |-> conj, val |-> val]

\* extract_fixed_variable: out is <<>> if v yields nothing, else the one
\* consequence, with the variable it is for and the engine's head literals
\* it was read from; exps is m_exps after the call.
extract_fixed_variable(bb, map, dep2asm, v, lconseq, exps) ==
    LET iv == internalize_var(bb, map, v)
        idx == [i \in 1..Len(iv.bvars) |-> conseq_index(lconseq, iv.bvars[i])]
        value == [i \in 1..Len(idx) |-> lconseq[idx[i]][1]]
        premises == UNION {Range(Tail(lconseq[idx[i]])) : i \in 1..Len(idx)}
        prem == SortedSeq(premises)
        iw == internalize_value(exps, value, v)
        conj == [i \in 1..Len(prem) |-> asm2dep_find(dep2asm, prem[i])]
    IN  IF ~iv.ok \/ \E i \in 1..Len(idx) : idx[i] = 0
        THEN [out |-> <<>>, exps |-> exps]
        ELSE [out |-> <<[v |-> v, value |-> value, premises |-> premises,
                         term |-> mk_conseq(conj, iw.val)]>>,
              exps |-> iw.exps]

\* The loop of get_consequences_core over vars.
RECURSIVE extract_conseq(_, _, _, _, _, _)
extract_conseq(bb, map, dep2asm, vs, lconseq, exps) ==
    IF vs = <<>> THEN [out |-> <<>>, exps |-> exps]
    ELSE LET h == extract_fixed_variable(bb, map, dep2asm, Head(vs), lconseq, exps)
             t == extract_conseq(bb, map, dep2asm, Tail(vs), lconseq, h.exps)
         IN  [out |-> h.out \o t.out, exps |-> t.exps]

\* The engine's get_consequences: unsat with a core, unknown, or sat with the
\* consequences it found.  The consequences it may find: none, or one for
\* each requested variable, or one for each but one of them; each has its
\* head on its variable, of either sign, followed by its premises, which
\* are none or all the assumption literals, for every consequence alike or
\* for the first one only.
ConseqPremises(lits, n) ==
    {[i \in 1..n |-> <<>>], [i \in 1..n |-> lits],
     [i \in 1..n |-> IF i = 1 THEN lits ELSE <<>>]}

drop_nth(sq, k) ==
    [i \in 1..(Len(sq) - 1) |-> IF i < k THEN sq[i] ELSE sq[i + 1]]

ConseqSeqs(lits, bs) ==
    LET n == Len(bs)
        full == {[i \in 1..n |-> <<literal(bs[i], sg[i])>> \o pr[i]] :
                    sg \in [1..n -> BOOLEAN], pr \in ConseqPremises(lits, n)}
    IN  {<<>>} \cup full \cup {drop_nth(c, k) : c \in full, k \in 1..n}

ConseqChoices(lits, bvars) == ConseqSeqs(lits, SortedSeq(Range(bvars)))

EngineConseq(lits, bvars, M) ==
    {[r |-> l_true, model |-> md, core |-> <<>>, lconseq |-> lc] :
        md \in M, lc \in ConseqChoices(lits, bvars)}
    \cup {[r |-> l_false, model |-> 0, core |-> c, lconseq |-> <<>>] :
            c \in CoreChoices(lits)}
    \cup {[r |-> l_undef, model |-> 0, core |-> <<>>, lconseq |-> <<>>]}

NoConseq == [r |-> "none", model |-> 0, core |-> <<>>, lconseq |-> <<>>]

NoExtract == [out |-> <<>>, exps |-> m_exps]

get_consequences_core(asms, vs, O, M) ==
    \E p0 \in {do_init_preprocess(PipeState)} :
    \E ch1 \in FmlChoices(m_fmls, m_fmls_head, O) :
    \E f \in {internalize_formulas(p0, m_fmls, m_fmls_head, ch1)} :
    \E ch2 \in IF f.res = l_true THEN AsmChoices(asms, m_asmsf, O) ELSE {OkChoice} :
    \E junk \in IF check_sat_front(f, asms, m_weights, 0, ch2).oob
                 THEN GarbageWeights ELSE {0} :
    \E c \in {check_sat_front(f, asms, m_weights, junk, ch2)} :
    \E e \in IF c.stage = "engine"
              THEN EngineConseq(c.m_asms, internalize_vars(f.p.bb, f.p.map, vs), M)
              ELSE {NoConseq} :
    \E x \in {IF c.stage = "engine" /\ e.r # l_false
              THEN extract_conseq(c.p.bb, c.p.map, c.dep2asm, vs, e.lconseq, m_exps)
              ELSE NoExtract} :
        /\ m_fmls_head' = c.head
        /\ s_clauses' = goal2sat_fmls(s_clauses, m_fmls, f.g2s, s_scopes)
        /\ m_bb_rewriter' = c.p.bb
        /\ m_preprocess' = c.p.pre
        /\ m_map' = c.p.map
        /\ m_unknown' = c.p.unknown
        /\ m_asms' = c.m_asms
        /\ m_weights' = c.m_weights
        /\ m_exps' = x.exps
        /\ IF c.stage = "engine"
           THEN /\ s_model_is_current' = (e.r = l_true)
                /\ s_model' = IF e.r = l_true THEN e.model ELSE s_model
                /\ m_core' = check_sat_core(c.m_asms, c.dep2asm, e)
           ELSE /\ UNCHANGED <<s_model_is_current, s_model, m_core>>
        /\ call' = [NoCall EXCEPT
                        !.op = "get_consequences",
                        !.r = IF c.stage = "engine" THEN e.r ELSE c.res,
                        !.reason_set = c.p.reason_set,
                        !.engine_ran = (c.stage = "engine"),
                        !.int = [int_report(f, c, asms, m_weights) EXCEPT
                                    !.null_deref =
                                        \/ @
                                        \/ f.res = l_true /\ ~f.p.bb.alive
                                        \/ /\ c.stage = "engine"
                                           /\ e.r # l_false
                                           /\ vs # <<>>
                                           /\ ~c.p.bb.alive],
                        !.asms_in = asms,
                        !.core = e.core,
                        !.vars_in = vs,
                        !.lconseq = e.lconseq,
                        !.conseq = x.out]
        /\ UNCHANGED <<m_fmls, m_asmsf, m_fmls_lim, m_asms_lim, m_fmls_head_lim,
                       m_map_lim, m_model, m_num_scopes, s_scopes, pre_push,
                       fresh_idx>>

(***************************************************************************)
(* Specifications.                                                         *)
(*   Spec       the scope stack: asserts, pushes, pops and clones.         *)
(*   SpecStack  the scope stack under guarded asserts, checks and          *)
(*              consequence queries whose internalization may fail.        *)
(*   SpecCore   the answers of checks and consequence queries under        *)
(*              call-supplied and standing assumptions.                    *)
(*   SpecModel  the cached model and core across guarded asserts, checks,  *)
(*              consequence queries, get_model, pushes and pops.           *)
(*   SpecMutex  find_mutexes over the variable maps checks leave behind.   *)
(*   SpecFrontier  the frontier across every operation that internalizes,  *)
(*              display_weighted included.                                 *)
(*   SpecRetry  internalization retried after each kind of failure by      *)
(*              pushes, checks and consequence queries.                    *)
(*   SpecAsms   assumption literals and weights under repeated, dropped    *)
(*              and standing assumptions.                                  *)
(*   SpecConseq consequence queries over boolean and bit-vector variables. *)
(*   SpecDisplay display_weighted between guarded asserts, pushes, pops.  *)
(***************************************************************************)
Next ==
    \/ \E t \in {1}, a \in {0, 2} :
          Len(m_fmls) < MaxFmls /\ assert_expr(t, a)
    \/ \E ch \in FmlChoices(m_fmls, m_fmls_head, PipelineOutcomes) :
          m_num_scopes < MaxScopes /\ push(ch)
    \/ \E n \in 0..(MaxScopes + 1) : pop(n)
    \/ translate

Spec == Init /\ [][Next]_vars

NextStack ==
    \/ \E t \in {1}, a \in {2} :
          Len(m_fmls) < CoreMaxFmls /\ assert_expr(t, a)
    \/ \E ch \in FmlChoices(m_fmls, m_fmls_head, PipelineOutcomes) :
          m_num_scopes < MaxScopes /\ push(ch)
    \/ \E n \in 0..(MaxScopes + 1) : pop(n)
    \/ check_sat(<<>>, PipelineOutcomes, {1})
    \/ get_consequences_core(<<>>, <<1>>, PipelineOutcomes, {1})

SpecStack == Init /\ [][NextStack]_vars

AsmInputs == {<<>>, <<1>>}

\* The pipeline may fail in each way in check_sat; pushes and consequence
\* queries internalize with success.
NextCore ==
    \/ \E t \in {1}, a \in {0, 2} :
          Len(m_fmls) < CoreMaxFmls /\ assert_expr(t, a)
    \/ \E ch \in FmlChoices(m_fmls, m_fmls_head, {"ok"}) :
          m_num_scopes < CoreMaxScopes /\ push(ch)
    \/ \E n \in 1..CoreMaxScopes : pop(n)
    \/ \E asms \in AsmInputs : check_sat(asms, PipelineOutcomes, {1})
    \/ \E asms \in AsmInputs :
          get_consequences_core(asms, <<>>, {"ok"}, {1})

SpecCore == Init /\ [][NextCore]_vars

NextModel ==
    \/ \E t \in {1}, a \in {2} :
          Len(m_fmls) < CoreMaxFmls /\ assert_expr(t, a)
    \/ \E ch \in FmlChoices(m_fmls, m_fmls_head, {"ok", "exception"}) :
          m_num_scopes < CoreMaxScopes /\ push(ch)
    \/ \E n \in 1..(CoreMaxScopes + 1) : pop(n)
    \/ check_sat(<<>>, {"ok", "exception"}, 1..NumModels)
    \/ get_consequences_core(<<>>, <<1>>, {"ok", "exception"}, 1..NumModels)
    \/ get_model

SpecModel == Init /\ [][NextModel]_vars

MutexInputs == {<<1, mk_not(2)>>, <<mk_not(1), 2, 1>>, <<mk_not(mk_not(1)), 2>>}

NextMutex ==
    \/ \E t \in {1, mk_not(2)} :
          Len(m_fmls) < MaxFmls /\ assert_expr(t, 0)
    \/ check_sat(<<>>, {"ok", "exception"}, {1})
    \/ \E vs \in MutexInputs :
          \E g \in MutexGroups(mutex_ls(vs)) : find_mutexes(vs, g)

SpecMutex == Init /\ [][NextMutex]_vars

(***************************************************************************)
(* Properties of push and pop (Spec).                                      *)
(***************************************************************************)
\* C1 (as stated): after pop(k) undoes k pushes, the formula count, the
\* assumption count and the frontier are the values they had immediately
\* before the first of those pushes.
C1_RestoresPrePush ==
    (call.op = "pop" /\ call.n >= 1)
        => /\ Len(m_fmls) = call.exp.fmls
           /\ Len(m_asmsf) = call.exp.asms
           /\ m_fmls_head = call.exp.head

\* C1 (amended): after pop(k) undoes k pushes, the formula count and the
\* assumption count are the values they had immediately before the first of
\* those pushes, and the frontier is the value that push checkpointed, taken
\* after its own internalization step: the pre-push frontier if that step
\* failed or had nothing to translate, the pre-push formula count otherwise.
C1_RestoresCheckpoint ==
    (call.op = "pop" /\ call.n >= 1)
        => /\ Len(m_fmls) = call.exp.fmls
           /\ Len(m_asmsf) = call.exp.asms
           /\ m_fmls_head = call.exp.snap
           /\ call.exp.snap \in {call.exp.head, call.exp.fmls}
           /\ call.exp.head <= call.exp.snap

\* pop(2) undid two pushes, the first of which translated formulas that were
\* untranslated when it was called.
C1_Witness ==
    /\ call.op = "pop"
    /\ call.n = 2
    /\ call.exp.head < call.exp.snap
    /\ m_fmls_head = call.exp.snap
    /\ Len(m_fmls) = call.exp.fmls

\* C2: at depth d, pop(n) for any n > d leaves the state pop(d) leaves, asks
\* the rewriter, the map and the engine to pop d, and that state has depth 0,
\* empty checkpoint stacks and the oldest checkpoint's values.
C2_OverPopIsPopAll ==
    /\ \A n \in (m_num_scopes + 1)..(MaxScopes + 2) :
          /\ pop_state(n) = pop_state(m_num_scopes)
          /\ pop_state(n).pop_map = m_num_scopes
          /\ pop_state(n).pop_solver = m_num_scopes
          /\ pop_state(n).pop_bb \in {m_num_scopes, -1}
          /\ pop_state(n).m_num_scopes = 0
          /\ pop_state(n).m_fmls_lim = <<>>
          /\ m_num_scopes >= 1 =>
                /\ Len(pop_state(n).m_fmls) = m_fmls_lim[1]
                /\ Len(pop_state(n).m_asmsf) = m_asms_lim[1]
                /\ pop_state(n).m_fmls_head = m_fmls_head_lim[1]
    /\ (call.op = "pop" /\ call.req > call.n)
          => /\ m_num_scopes = 0
             /\ s_scopes = 0
             /\ m_fmls_lim = <<>> /\ m_asms_lim = <<>> /\ m_fmls_head_lim = <<>>
             /\ m_map_lim = <<>>
             /\ m_bb_rewriter.alive => m_bb_rewriter.scopes = 0

\* A pop that asked for more levels than the two that existed.
C2_Witness ==
    /\ call.op = "pop"
    /\ call.req > call.n
    /\ call.n = 2
    /\ m_num_scopes = 0

\* C7: translate succeeds exactly at depth 0; the clone then holds the
\* translated formulas and standing assumptions in the same order, is at
\* depth 0 with frontier 0, and the source solver is unchanged.
C7_Translate ==
    [][call'.op = "translate" =>
         /\ UNCHANGED <<solver_vars, engine_vars>>
         /\ (call'.r = "ok") = (m_num_scopes = 0)
         /\ call'.clone.made = (m_num_scopes = 0)
         /\ m_num_scopes > 0 => call'.r = "exception"
         /\ m_num_scopes = 0 =>
               /\ Len(call'.clone.m_fmls) = Len(m_fmls)
               /\ \A i \in 1..Len(m_fmls) : call'.clone.m_fmls[i] = tr(m_fmls[i])
               /\ Len(call'.clone.m_asmsf) = Len(m_asmsf)
               /\ \A i \in 1..Len(m_asmsf) : call'.clone.m_asmsf[i] = tr(m_asmsf[i])
               /\ call'.clone.m_num_scopes = 0
               /\ call'.clone.m_fmls_head = 0]_vars

\* A clone made of a solver that had translated formulas and a standing
\* assumption: the source's frontier is past 0, the clone's is 0.
C7_Witness ==
    /\ call.op = "translate"
    /\ call.r = "ok"
    /\ call.clone.made
    /\ Len(call.clone.m_fmls) = MaxFmls
    /\ Len(call.clone.m_asmsf) >= 1
    /\ m_fmls_head > 0
    /\ call.clone.m_fmls_head = 0

(***************************************************************************)
(* The checkpoint stacks (SpecStack).                                      *)
(***************************************************************************)
\* C9: the three checkpoint stacks always have as many entries as the scope
\* depth, and the depth never goes below zero.
C9_StacksMatchDepth ==
    /\ get_scope_level >= 0
    /\ Len(m_fmls_lim) = get_scope_level
    /\ Len(m_asms_lim) = get_scope_level
    /\ Len(m_fmls_head_lim) = get_scope_level

\* A consequence query failed in internalization inside two scopes, with
\* formulas left untranslated.
C9_Witness ==
    /\ m_num_scopes = MaxScopes
    /\ call.op = "get_consequences"
    /\ call.r = l_undef
    /\ ~call.engine_ran
    /\ m_fmls_head < Len(m_fmls)
    /\ Len(m_fmls_lim) = MaxScopes

(***************************************************************************)
(* Unsat cores and unknown answers (SpecCore).                             *)
(***************************************************************************)
\* An answer of unsatisfiable from check_sat or get_consequences_core.
UnsatAnswer ==
    call.op \in {"check_sat", "get_consequences"} /\ call.r = l_false

\* C3: after every unsatisfiable answer, also one reached with no assumption
\* literals, get_unsat_core is the core of that call: one term per literal
\* of the engine's core, each the term of that literal, and nothing left
\* over from an earlier call.
C3_CoreRecomputed ==
    UnsatAnswer
        => /\ Len(get_unsat_core) = Len(call.core)
           /\ \A i \in 1..Len(call.core) :
                 /\ get_unsat_core[i] # 0
                 /\ DepLit(m_map, get_unsat_core[i]) = call.core[i]

\* C4: after an unsatisfiable check with call-supplied assumptions, every
\* term of the core is one of those assumptions or a standing assumption,
\* and no lookup of a core literal has failed.
C4_CoreFromAssumptions ==
    (UnsatAnswer /\ Len(call.asms_in) >= 1)
        => /\ Range(get_unsat_core) \subseteq
                 (Range(call.asms_in) \cup Range(m_asmsf))
           /\ 0 \notin Range(get_unsat_core)

\* C8: every unknown answer of check_sat or get_consequences_core has a
\* reason that this call set.
C8_UnknownHasReason ==
    (call.op \in {"check_sat", "get_consequences"} /\ call.r = l_undef)
        => /\ call.reason_set
           /\ reason_unknown # NoReason

(***************************************************************************)
(* The cached model and core (SpecModel).                                  *)
(***************************************************************************)
\* C5: get_model gives no model whenever the engine's model is not current,
\* whether or not an earlier get_model produced one.
C5_NoModelUnlessCurrent ==
    (call.op = "get_model" /\ ~s_model_is_current) => call.mdl = 0

\* C6: push and pop never change the cached model or the cached core, also
\* when the internalization push runs fails.
C6_PushPopKeepCaches ==
    [][call'.op \in {"push", "pop"} =>
         /\ m_model' = m_model
         /\ m_core' = m_core
         /\ get_unsat_core' = get_unsat_core]_vars

\* A pop of an existing scope, and before it a failed or successful push,
\* with a model and a non-empty core cached.
C6_Witness ==
    /\ call.op = "pop"
    /\ call.n >= 1
    /\ m_model # 0
    /\ m_core # <<>>

(***************************************************************************)
(* find_mutexes (SpecMutex).                                               *)
(***************************************************************************)
\* The positions of the input terms that have a variable in the map.
MappedInputs(vs) ==
    {k \in 1..Len(vs) : to_bool_var(m_map, strip_not(vs[k])) # null_bool_var}

\* C10: find_mutexes returns as many groups as the engine did; every atom of
\* every group is one of the input terms that have a variable, the one
\* the engine's literal stands for; the engine was given exactly the
\* literals of those inputs; and no solver state changes.
C10_FindMutexes ==
    [][call'.op = "find_mutexes" =>
         LET vs == call'.asms_in
             out == call'.mutexes
             eng == call'.ls_mutexes
         IN  /\ UNCHANGED <<solver_vars, engine_vars>>
             /\ call'.r = l_true
             /\ Len(call'.ls) = Cardinality(MappedInputs(vs))
             /\ Range(call'.ls) =
                   {literal(m_map[strip_not(vs[k])], is_not(vs[k])) :
                       k \in MappedInputs(vs)}
             /\ Len(out) = Len(eng)
             /\ \A i \in 1..Len(eng) :
                   /\ Len(out[i]) = Len(eng[i])
                   /\ \A j \in 1..Len(eng[i]) :
                         \E k \in MappedInputs(vs) :
                             /\ out[i][j] = vs[k]
                             /\ eng[i][j] = literal(m_map[strip_not(vs[k])],
                                                    is_not(vs[k]))]_vars

\* find_mutexes was given a negated mapped term and an unmapped one, and
\* the engine returned a group holding the negated term's literal.
C10_Witness ==
    /\ call.op = "find_mutexes"
    /\ Len(call.asms_in) > Len(call.ls)
    /\ Len(call.ls) >= 1
    /\ Len(call.mutexes) = 2
    /\ \E i \in 1..Len(call.mutexes) :
          \E j \in 1..Len(call.mutexes[i]) : is_not(call.mutexes[i][j])

DisplayInputs == {<<>>, <<1>>}

\* The pipeline outcomes of SpecFrontier: success, and a failure of each
\* kind, one that discards the pipeline and one that keeps it.
FrontierOutcomes == {"ok", "exception", "subgoals"}

NextFrontier ==
    \/ \E t \in {1}, a \in {0} :
          Running /\ Len(m_fmls) < MaxFmls /\ assert_expr(t, a)
    \/ \E ch \in FmlChoices(m_fmls, m_fmls_head, FrontierOutcomes) :
          Running /\ m_num_scopes < CoreMaxScopes /\ push(ch)
    \/ \E n \in 1..CoreMaxScopes : Running /\ pop(n)
    \/ Running /\ check_sat(<<>>, FrontierOutcomes, {1})
    \/ Running /\ get_consequences_core(<<>>, <<>>, FrontierOutcomes, {1})
    \/ \E asms \in DisplayInputs \ {<<>>} :
          /\ Running
          /\ Len(m_fmls) + Len(asms) <= MaxFmls
          /\ fresh_idx + Len(asms) <= MaxFresh
          /\ display_weighted(asms, <<>>, FrontierOutcomes)

SpecFrontier == Init /\ [][NextFrontier]_vars

NextRetry ==
    \/ \E t \in {1}, a \in {0} :
          Len(m_fmls) < MaxFmls /\ assert_expr(t, a)
    \/ \E ch \in FmlChoices(m_fmls, m_fmls_head, PipelineOutcomes) :
          m_num_scopes < CoreMaxScopes /\ push(ch)
    \/ \E n \in 1..CoreMaxScopes : pop(n)
    \/ check_sat(<<>>, PipelineOutcomes, {1})
    \/ get_consequences_core(<<>>, <<1>>, PipelineOutcomes, {1})

SpecRetry == Init /\ [][NextRetry]_vars

\* Call-supplied assumptions: a repeated term, two terms, and the guard the
\* asserts of this specification use; with no weights or one per term, the
\* weight of position i being i.
WeightedInputs == {<<1, 1>>, <<1, 2>>, <<2>>}

WeightChoices(asms) == {<<>>, [i \in 1..Len(asms) |-> i]}

NextAsms ==
    \/ \E t \in {1}, a \in {2} :
          Running /\ Len(m_fmls) < MaxFmls /\ assert_expr(t, a)
    \/ \E asms \in WeightedInputs : \E ws \in WeightChoices(asms) :
          Running /\ check_sat_weighted(asms, ws, {"ok"}, {1})
    \/ \E asms \in DisplayInputs : \E ws \in WeightChoices(asms) :
          /\ Running
          /\ Len(m_fmls) + Len(asms) <= MaxFmls
          /\ fresh_idx + Len(asms) <= MaxFresh
          /\ display_weighted(asms, ws, {"ok"})

SpecAsms == Init /\ [][NextAsms]_vars

\* The formulas and the interesting variables of consequence queries: the
\* narrowest and the widest bit-vector constant, the widest constrained in
\* every bit or in bit 0 only, and the boolean atom of the call-supplied
\* assumption.
ConseqFmls == {bv_fml(1), bv_fml(MaxWidth), bv_fml0(MaxWidth)}

ConseqVars == {<<1>>, <<bv_const(1)>>, <<bv_const(MaxWidth), bv_const(1)>>}

\* The formulas are asserted once each, in the order of their encoding.
NextConseq ==
    \/ \E t \in ConseqFmls :
          /\ Len(m_fmls) < MaxFmls
          /\ \A i \in 1..Len(m_fmls) : m_fmls[i] < t
          /\ assert_expr(t, 0)
    \/ \E asms \in AsmInputs : \E vs \in ConseqVars :
          get_consequences_core(asms, vs, {"ok"}, {1})

SpecConseq == Init /\ [][NextConseq]_vars

\* display_weighted between guarded asserts, pushes and pops, with the
\* pipeline succeeding or failing; the soft terms are copies of one atom.
SoftInputs == {[i \in 1..sz |-> 1] : sz \in 0..MaxFresh}

\* The pipeline outcomes of SpecDisplay: success, and a failure that keeps
\* the pipeline.
DisplayOutcomes == {"ok", "subgoals"}

NextDisplay ==
    \/ \E t \in {1}, a \in {2} :
          Running /\ Len(m_fmls) < MaxFmls /\ assert_expr(t, a)
    \/ \E ch \in FmlChoices(m_fmls, m_fmls_head, DisplayOutcomes) :
          Running /\ m_num_scopes < CoreMaxScopes /\ push(ch)
    \/ \E n \in 1..CoreMaxScopes : Running /\ pop(n)
    \/ \E asms \in SoftInputs :
          /\ Running
          /\ Len(m_fmls) + Len(asms) <= MaxFmls
          /\ fresh_idx + Len(asms) <= MaxFresh
          /\ display_weighted(asms, <<>>, DisplayOutcomes)

SpecDisplay == Init /\ [][NextDisplay]_vars

(***************************************************************************)
(* The frontier.                                                           *)
(***************************************************************************)
\* C11: the frontier is at most the formula count in every state, and no
\* operation other than pop lowers it: not assert, push, check_sat,
\* get_consequences or display_weighted, whether internalization succeeds
\* or fails.
C11_FrontierMonotone ==
    /\ m_fmls_head <= Len(m_fmls)
    /\ [][/\ m_fmls_head' <= Len(m_fmls')
          /\ (m_fmls_head' < m_fmls_head => call'.op = "pop")]_vars

\* A failed internalization has left a frontier strictly between 0 and the
\* formula count.
C11_Witness ==
    /\ call.int.fml_res = l_undef
    /\ m_fmls_head > 0
    /\ m_fmls_head < Len(m_fmls)

\* C12 as stated: when an operation that internalizes follows another with
\* no assert in between, the second runs nothing through the pipeline and
\* leaves the frontier alone; and nothing is handed to goal2sat twice in two
\* operations in a row.
C12_SecondCallNoOp ==
    [][(/\ call.int.fml_res # "none"
        /\ call'.int.fml_res # "none"
        /\ m_fmls' = m_fmls)
       => /\ call'.int.fml_goal = {}
          /\ m_fmls_head' = m_fmls_head
          /\ call'.int.g2s \cap call.int.g2s = {}]_vars

\* C12, amended: a formula below the frontier is never run through the
\* pipeline or handed to goal2sat again, and an operation that internalizes
\* right after a successful internalization, with no assert in between, runs
\* nothing and leaves the frontier alone.  After a failed internalization
\* the same suffix is run again.
C12_NoOpAfterSuccess ==
    [][call'.int.fml_res # "none"
       => /\ call'.int.fml_goal \cap 1..m_fmls_head = {}
          /\ call'.int.g2s \subseteq call'.int.fml_goal
          /\ (call.int.fml_res = l_true /\ m_fmls' = m_fmls)
             => /\ call'.int.fml_goal = {}
                /\ m_fmls_head' = m_fmls_head]_vars

\* An operation has internalized the second formula alone, the first being
\* below the frontier.
C12_Witness ==
    /\ call.int.fml_res = l_true
    /\ call.int.fml_goal = {2}
    /\ call.int.g2s = {2}

\* C13: when internalize_formulas returns unknown, the frontier, the
\* formulas and the standing assumptions are as it found them; check_sat and
\* get_consequences then return unknown without running the engine and at
\* the same scope depth; the next internalization, if no assert comes
\* first, runs the same suffix; and when it returns true the frontier is the
\* formula count.
C13_FailureKeepsFrontier ==
    [][/\ call'.int.fml_res = l_undef
          => /\ m_fmls_head' = m_fmls_head
             /\ m_asmsf' = m_asmsf
             /\ call'.op # "display_weighted" => m_fmls' = m_fmls
             /\ call'.int.fml_goal = goal_indices(m_fmls', m_fmls_head')
             /\ call'.op \in {"check_sat", "get_consequences"}
                => /\ ~call'.engine_ran
                   /\ call'.r = l_undef
                   /\ m_num_scopes' = m_num_scopes
       /\ (call.int.fml_res = l_undef /\ call'.int.fml_res # "none"
           /\ m_fmls' = m_fmls)
          => call'.int.fml_goal = call.int.fml_goal
       /\ call'.int.fml_res = l_true => m_fmls_head' = Len(m_fmls')]_vars

\* Two failed internalizations in a row, the second by a check.
C13_Witness ==
    /\ call.op = "check_sat"
    /\ call.int.fml_res = l_undef
    /\ call.int.fml_goal = {1, 2}
    /\ call.r = l_undef

(***************************************************************************)
(* Assumption literals and weights.                                        *)
(***************************************************************************)
\* C14: after a successful internalize_assumptions the number of assumption
\* literals equals the size of the dependency map the call built.
C14_LitsMatchDeps ==
    call.int.asm_res = l_true => Len(m_asms) = call.int.dep_size

\* C15: after a weighted check whose internalize_assumptions succeeded,
\* m_weights holds exactly the weights supplied for the kept call-supplied
\* terms, in order.
C15_WeightsCompacted ==
    (call.op = "check_sat" /\ call.int.asm_res = l_true /\ call.int.ws_in # <<>>)
    => m_weights = [j \in 1..Len(call.int.kept_ix) |->
                       call.int.ws_in[call.int.kept_ix[j]]]

(***************************************************************************)
(* Consequences.                                                           *)
(***************************************************************************)
\* The boolean atoms an interesting variable stands for in the state: itself
\* if it is boolean, its bits if the rewriter has blasted it, else none
\* (as a sequence, bit 0 first).
UnderlyingAtoms(v) ==
    IF v \in MapAtoms THEN <<v>>
    ELSE IF v \in BvConsts /\ \E e \in m_bb_rewriter.c2b : e[1] = v - 10000
    THEN [j \in 1..(v - 10000) |-> bit(v - 10000, j - 1)]
    ELSE <<>>

\* The variables the engine's consequences have as heads.
Heads == {lit_var(call.lconseq[i][1]) : i \in 1..Len(call.lconseq)}

\* v resolves to atoms that all have variables, each the head of a
\* consequence of the engine.
Yields(v) ==
    /\ UnderlyingAtoms(v) # <<>>
    /\ \A j \in 1..Len(UnderlyingAtoms(v)) :
          /\ m_map[UnderlyingAtoms(v)[j]] # null_bool_var
          /\ m_map[UnderlyingAtoms(v)[j]] \in Heads

Answered ==
    call.op = "get_consequences" /\ call.engine_ran /\ call.r # l_false

\* C16: the consequences of a query are for exactly the interesting
\* variables that resolve to atoms all having variables that are all heads
\* of engine consequences, one each, in input order; the others yield
\* nothing and the call returns the engine's answer.
C16_ConseqIffAllForced ==
    Answered
    => /\ [i \in 1..Len(call.conseq) |-> call.conseq[i].v]
            = SelectSeq(call.vars_in, Yields)
       /\ call.r \in {l_true, l_undef}

\* A query over two variables, the first a bit-vector with a bit that has
\* no variable although its other bit is a head, the second yielding a
\* consequence.
C16_Witness ==
    /\ Answered
    /\ Len(call.vars_in) = 2
    /\ call.vars_in[1] \in BvConsts
    /\ UnderlyingAtoms(call.vars_in[1]) # <<>>
    /\ \E j \in 1..Len(UnderlyingAtoms(call.vars_in[1])) :
          m_map[UnderlyingAtoms(call.vars_in[1])[j]] \in Heads
    /\ ~Yields(call.vars_in[1])
    /\ Len(call.conseq) = 1
    /\ call.conseq[1].v = call.vars_in[2]

RECURSIVE Pow2(_)
Pow2(i) == IF i = 0 THEN 1 ELSE 2 * Pow2(i - 1)

RECURSIVE SumOver(_, _)
SumOver(S, c) ==
    IF S = {} THEN 0
    ELSE LET i == CHOOSE x \in S : TRUE
         IN  (IF ~lit_sign(c.value[i + 1]) THEN Pow2(i) ELSE 0)
             + SumOver(S \ {i}, c)

\* C17: the value of a consequence for a bit-vector variable of width n is
\* the equality with the numeral of width n that is the sum of 2^i over the
\* bits i whose head literal is positive, the head of bit i being read from
\* the variable of bit i, whatever m_exps held before; for a boolean variable
\* it is the atom if the head is positive and its negation if not.
C17_ValueIsBinarySum ==
    Answered
    => \A k \in 1..Len(call.conseq) :
          LET c == call.conseq[k]
              n == c.v - 10000
          IN  IF c.v \in BvConsts
              THEN /\ Len(c.value) = n
                   /\ \A i \in 0..(n - 1) :
                         lit_var(c.value[i + 1]) = m_map[bit(n, i)]
                   /\ SumOver(0..(n - 1), c) \in 0..(Pow2(n) - 1)
                   /\ c.term.val = mk_eq(c.v, mk_numeral(SumOver(0..(n - 1), c), n))
              ELSE /\ Len(c.value) = 1
                   /\ lit_var(c.value[1]) = m_map[c.v]
                   /\ c.term.val = IF lit_sign(c.value[1]) THEN mk_not(c.v) ELSE c.v

\* A query answered the widest variable, only its top bit positive, which
\* grew m_exps to that width, and then the narrowest one, whose value is read
\* from the table the wider one left.
C17_Witness ==
    /\ Answered
    /\ Len(call.conseq) = 2
    /\ call.conseq[1].v = bv_const(MaxWidth)
    /\ call.conseq[1].term.val
         = mk_eq(bv_const(MaxWidth), mk_numeral(Pow2(MaxWidth - 1), MaxWidth))
    /\ call.conseq[2].v = bv_const(1)
    /\ call.conseq[2].term.val = mk_eq(bv_const(1), mk_numeral(1, 1))
    /\ Len(m_exps) = MaxWidth

\* C18: a consequence whose premises are empty is the bare value fact, not
\* an implication; one whose premises are not empty is the implication from
\* the conjunction of the terms dep2asm maps to the premise literals.
C18_BareFactWhenNoPremises ==
    Answered
    => \A k \in 1..Len(call.conseq) :
          LET c == call.conseq[k]
          IN  /\ c.premises = {} => ~c.term.implies
              /\ c.premises # {}
                 => /\ c.term.implies
                    /\ Len(c.term.conj) = Cardinality(c.premises)
                    /\ Range(c.term.conj) \subseteq Range(call.asms_in)

(***************************************************************************)
(* The pipeline and its bit-blast rewriter.                                *)
(***************************************************************************)
\* C19: whenever the rewriter exists its scope depth is the solver's, the
\* pipeline is never applied with the two different, and pop never asks the
\* rewriter to pop more scopes than it has.
C19_RewriterDepthMatches ==
    /\ [](/\ m_bb_rewriter.alive => m_bb_rewriter.scopes = m_num_scopes
          /\ ~call.int.misaligned)
    /\ [][(call'.op = "pop" /\ m_bb_rewriter.alive)
          => call'.n <= m_bb_rewriter.scopes]_vars

\* A check inside a scope has applied the pipeline with a rewriter it had to
\* allocate, an earlier failure having discarded the one before.
C19_Witness ==
    /\ call.op = "check_sat"
    /\ call.int.rebuilt
    /\ call.int.applied
    /\ m_num_scopes > 0
    /\ m_bb_rewriter.alive
    /\ m_bb_rewriter.scopes = m_num_scopes

\* C20: a call in which the pipeline raises a tactic_exception leaves no
\* pipeline and no rewriter, and check_sat and get_consequences_core then
\* return unknown; a call that applies the pipeline when there is no
\* rewriter allocates one first; and no call dereferences a null pipeline
\* or rewriter.
C20_DiscardAndRebuild ==
    /\ [](~call.int.null_deref)
    /\ [][/\ call'.int.exc
             => /\ ~m_bb_rewriter'.alive
                /\ ~m_preprocess'
                /\ call'.op \in {"check_sat", "get_consequences"}
                   => call'.r = l_undef
          /\ (~m_bb_rewriter.alive /\ call'.int.applied) => call'.int.rebuilt
          /\ (~m_bb_rewriter.alive /\ call'.op \in {"pop", "get_model"})
             => ~m_bb_rewriter'.alive]_vars

\* A consequence query has allocated a new rewriter, applied the pipeline with
\* it and gone on to the engine.
C20_Witness ==
    /\ call.op = "get_consequences"
    /\ call.int.rebuilt
    /\ call.int.applied
    /\ call.engine_ran
    /\ m_preprocess

(***************************************************************************)
(* The frontier and the engine.                                            *)
(***************************************************************************)
\* The engine holds the translation of the formula at position i, added at a
\* user scope level that is still open.
EngineHolds(i) ==
    \E c \in s_clauses : c.ix = i /\ c.fml = m_fmls[i] /\ c.lvl <= s_scopes

\* C21: in every state, each formula at a position below the frontier was
\* translated into the engine at a user scope level that is still live, and
\* the engine holds nothing from a level that was popped; so a check or a
\* consequence query that ran the engine ran it with every stored formula it
\* counts as translated.
C21_FrontierInEngine ==
    /\ m_fmls_head <= Len(m_fmls)
    /\ \A i \in 1..m_fmls_head : EngineHolds(i)
    /\ \A c \in s_clauses : c.lvl <= s_scopes
    /\ call.engine_ran =>
          /\ m_fmls_head = Len(m_fmls)
          /\ \A i \in 1..Len(m_fmls) : EngineHolds(i)

\* A pop has closed a scope whose push failed to internalize a formula, after
\* the formula was translated inside that scope: the frontier is back below
\* the formula and the engine no longer holds it.
C21_Witness ==
    /\ call.op = "pop"
    /\ call.n = 1
    /\ call.exp.snap = call.exp.head
    /\ call.exp.head < call.exp.fmls
    /\ call.int.head0 = call.exp.fmls
    /\ m_fmls_head = call.exp.snap
    /\ Len(m_fmls) = call.exp.fmls
    /\ \A i \in (m_fmls_head + 1)..Len(m_fmls) : ~EngineHolds(i)

(***************************************************************************)
(* The weighted-CNF dump.                                                  *)
(***************************************************************************)
\* A display_weighted call that returned appended one formula per soft term,
\* "fresh guard implies soft term", and left the standing assumptions, the
\* scope depth and the checkpoint stacks alone.
DisplayAppends ==
    (call'.op = "display_weighted" /\ call'.r = "done") =>
        /\ Len(m_fmls') = Len(m_fmls) + Len(call'.asms_in)
        /\ SubSeq(m_fmls', 1, Len(m_fmls)) = m_fmls
        /\ \A i \in 1..Len(call'.asms_in) :
              /\ m_fmls'[Len(m_fmls) + i]
                    = mk_implies(mk_fresh_const(fresh_idx + i - 1),
                                 call'.asms_in[i])
              /\ mk_fresh_const(fresh_idx + i - 1)
                    \notin AtomsOfAll(Range(m_fmls) \cup Range(m_asmsf))
        /\ fresh_idx' = fresh_idx + Len(call'.asms_in)
        /\ UNCHANGED <<m_asmsf, m_num_scopes, m_fmls_lim, m_asms_lim,
                       m_fmls_head_lim>>

\* How many of the stored formulas were asserted at depth 0.
BaseFmls == IF m_fmls_lim = <<>> THEN Len(m_fmls) ELSE m_fmls_lim[1]

\* Stored formulas stay: a step that is not a pop of at least one scope keeps
\* every one of them, and no step removes one that was added at depth 0.
FmlsStay ==
    /\ (call'.op # "pop" \/ call'.n = 0) =>
          /\ Len(m_fmls') >= Len(m_fmls)
          /\ SubSeq(m_fmls', 1, Len(m_fmls)) = m_fmls
    /\ Len(m_fmls') >= BaseFmls
    /\ SubSeq(m_fmls', 1, BaseFmls) = SubSeq(m_fmls, 1, BaseFmls)

WeightsCover == Len(m_weights) >= Len(m_asms)

\* C23: wherever weights and assumption literals are consumed together the
\* weights array has an entry for every literal: after a display_weighted
\* call that reached its loop over m_asms (it reads m_weights[i] for every
\* i below m_asms.size()), and after a check_sat that handed a non-empty
\* m_weights to the engine with m_asms.
C23_WeightsAligned ==
    /\ (call.op = "display_weighted" /\ call.r = "done") => WeightsCover
    /\ (call.op = "check_sat" /\ call.engine_ran /\ m_weights # <<>>)
          => WeightsCover
====
